---- MODULE Spec2Model ----
(***************************************************************************)
(* A model of device-sim's Diris A40 register simulation                   *)
(* (src/device_simulator/a40.py, main.py): the register catalog, the       *)
(* codec _pack_value, the holding-register block with its periodic _step,  *)
(* and the slave context that forwards validate/getValues/setValues.       *)
(*                                                                         *)
(* Python lists and tuples are 0-based, TLA+ sequences 1-based:            *)
(* limits[0] is limits[1] here, limits[1] is limits[2].                    *)
(***************************************************************************)
EXTENDS Integers, Sequences, FiniteSets, TLC

VARIABLES
    slaves,     \* main.py `slaves`: unit id -> the device create() returned
    now,        \* the wall clock time.time(), in whole seconds
    codec       \* the argument and result of one _pack_value call

vars == <<slaves, now, codec>>

(***************************************************************************)
(* Bounds of the model.                                                    *)
(***************************************************************************)
\* time.time() when the devices are created.
BootTime == 1000
\* _step is followed while the elapsed time it reads is at most this.
MaxElapsed == 36
\* The calls of _step by a device are counted up to this.
MaxTicks == 2
\* Spec lets a client write this many times to a device between two ticks.
MaxWrites == 1
\* The longest (address, count) range and value list a client sends.
MaxCount == 2

(***************************************************************************)
(* Register configuration tables (a40.py lines 10-67).                     *)
(***************************************************************************)
_HOUR_METER == 50512                                            \* 0xC550

\* Python's range(start, stop, step), step > 0, as a set.
range(start, stop, step) ==
    {a \in start..(stop - 1) : (a - start) % step = 0}

\* dict.update: the entries of d2 replace and extend those of d1.
update(d1, d2) ==
    [k \in (DOMAIN d1) \cup (DOMAIN d2) |->
        IF k \in DOMAIN d2 THEN d2[k] ELSE d1[k]]

TABLE_1 == [addr \in range(50512, 50572 + 1, 2) |-> 2]   \* 0xC550..0xC58C
TABLE_2 == [addr \in range(50768, 50817 + 1, 2) |-> 2]   \* 0xC650..0xC681
TABLE_3_overlapping ==
    update([addr \in range(51024, 51086 + 1, 2) |-> 2],
           [addr \in range(51087, 51093 + 1, 1) |-> 1])

TABLE_3 ==
    update([addr \in range(51024, 51086 + 1, 2) |-> 2],  \* 0xC750..0xC78E
           [addr \in range(51088, 51093 + 1, 1) |-> 1])  \* 0xC790..0xC795
TABLE_4 == [addr \in range(51280, 51313 + 1, 1) |-> 1]   \* 0xC850..0xC871
TABLE_5 == [addr \in range(51456, 51463 + 1, 1) |-> 1]   \* 0xC900..0xC907
TABLE_6 == [addr \in range(51536, 51858 + 1, 1) |-> 1]   \* 0xC950..0xCA92

TABLES == <<TABLE_1, TABLE_2, TABLE_3, TABLE_4, TABLE_5, TABLE_6>>

REGISTER_LIMITS ==
    [addr \in {50514, 50516, 50518, 50520, 50522, 50524, 50526, 50528,
               50530, 50532, 50534, 50536, 50538, 50540, 50542, 50544,
               50546, 50548, 50550, 50552, 50554, 50556, 50558, 50560,
               50562, 50564, 50566} |->
        CASE addr \in {50520, 50514, 50522, 50516, 50524, 50518}
                -> <<0, 50000>>
          [] addr \in {50528, 50530, 50532, 50534}
                -> <<0, 20000>>
          [] addr \in {50544, 50556, 50550, 50546, 50558, 50552, 50548,
                       50560, 50554, 50536, 50540, 50538}
                -> <<0, 1000>>
          [] addr \in {50562, 50564, 50566, 50542}
                -> <<-1000, 1000>>
          [] addr = 50526
                -> <<3000, 7000>>]

\* ALL = {}; for t in TABLES: ALL.update(t)
RECURSIVE update_all(_, _)
update_all(d, i) ==
    IF i > Len(TABLES) THEN d ELSE update_all(update(d, TABLES[i]), i + 1)

ALL == update_all(<<>>, 1)

(***************************************************************************)
(* The devices of the model are instantiated over the registers of the     *)
(* catalog that lie in Scope: the hour meter; 50544 (0xC570), two words    *)
(* wide, with the limits [0, 1000]; and 51280 (0xC850), one word wide,     *)
(* which like the hour meter has no entry in REGISTER_LIMITS.              *)
(***************************************************************************)
Scope == {_HOUR_METER, 50544, 51280}

_ALL_REGISTERS == [addr \in Scope \cap DOMAIN ALL |-> ALL[addr]]

sum(limits) == limits[1] + limits[2]

\* Python 2's int / int: floor division.
floordiv(a, b) == a \div b

\* int(a / float(b)) for b > 0: the quotient truncated towards zero.
int_truediv(a, b) == IF a >= 0 THEN a \div b ELSE -((-a) \div b)

_INITIAL_REGISTER_VALUES_zeroed == [k \in DOMAIN _ALL_REGISTERS |-> 0]

_INITIAL_REGISTER_VALUES ==
    [k \in DOMAIN _ALL_REGISTERS |->
        IF k \in DOMAIN REGISTER_LIMITS
        THEN floordiv(sum(REGISTER_LIMITS[k]), 2)
        ELSE 0]

(***************************************************************************)
(* The codec (a40.py lines 212-224).                                       *)
(***************************************************************************)
_REGISTER_TYPES == [width \in {1, 2, 4} |->
                        CASE width = 1 -> "h" [] width = 2 -> "i" [] width = 4 -> "q"]

\* struct.calcsize('>' + value_type)
calcsize(value_type) ==
    CASE value_type = "h" -> 2 [] value_type = "i" -> 4 [] value_type = "q" -> 8

\* struct.pack raises struct.error for a value its format cannot hold; the
\* model returns this value, which is no byte string, in place of a result.
StructError == <<-1>>

\* The model's integers are 32 bits wide: every one of them fits "i" and "q".
fits(value_type, value) ==
    value_type = "h" => (-32768 <= value /\ value <= 32767)

\* The n low-order bytes of value in two's complement, most significant first.
RECURSIVE big_endian(_, _)
big_endian(value, n) ==
    IF n = 0 THEN <<>>
    ELSE Append(big_endian(value \div 256, n - 1), value % 256)

\* struct.pack('>' + value_type, value)
struct_pack(value_type, value) ==
    IF fits(value_type, value)
    THEN big_endian(value, calcsize(value_type))
    ELSE StructError

\* struct.unpack('>H', two_bytes)[0]
struct_unpack_H(two_bytes) == two_bytes[1] * 256 + two_bytes[2]

\* byte_string[2*i : 2*i+2], i counted from 0
slice2(byte_string, i) == <<byte_string[2 * i + 1], byte_string[2 * i + 2]>>

_pack_value_swapped(value, width) ==
    LET value_type  == _REGISTER_TYPES[width]
        byte_string == struct_pack(value_type, value)
    IN  IF byte_string = StructError THEN StructError
        ELSE [i \in 1..width |->
                struct_unpack_H(slice2(byte_string, width - i))]

_pack_value(value, width) ==
    LET value_type  == _REGISTER_TYPES[width]
        byte_string == struct_pack(value_type, value)
    IN  IF byte_string = StructError THEN StructError
        ELSE [i \in 1..width |-> struct_unpack_H(slice2(byte_string, i - 1))]

(***************************************************************************)
(* The data blocks.  A40HoldingRegistersDataBlock (a40.py line 132)        *)
(* inherits validate, getValues and setValues from pymodbus's              *)
(* ModbusSparseDataBlock, whose values are a dict: word address -> word.   *)
(* The three other stores are ModbusSequentialDataBlock(0, [1]) (a40.py    *)
(* lines 80-82): a start address and a list.                               *)
(***************************************************************************)
Min(a, b) == IF a <= b THEN a ELSE b
Max(a, b) == IF a >= b THEN a ELSE b

\* d.get(k, default)
get(d, k, default) == IF k \in DOMAIN d THEN d[k] ELSE default

\* ModbusSparseDataBlock.validate: the protocol layer sends count >= 1.
Sparse_validate(values, address, count) ==
    /\ count # 0
    /\ \A a \in address..(address + count - 1) : a \in DOMAIN values

\* ModbusSparseDataBlock.getValues
Sparse_getValues(values, address, count) ==
    [i \in 1..count |-> values[address + i - 1]]

\* ModbusSparseDataBlock.setValues with a dict: each key of the dict is set.
Sparse_setValues_dict(values, d) == update(values, d)

\* ModbusSparseDataBlock.setValues with a list: values[address + idx] = val.
Sparse_setValues_list_first(values, address, list) ==
    update(values, [a \in {address} |-> list[1]])

Sparse_setValues_list(values, address, list) ==
    update(values,
           [a \in address..(address + Len(list) - 1) |-> list[a - address + 1]])

\* ModbusSequentialDataBlock(address, values)
SequentialDataBlock(address, values) == [address |-> address, values |-> values]

Sequential_validate(block, address, count) ==
    /\ block.address <= address
    /\ block.address + Len(block.values) >= address + count

\* A Python slice list[start:stop] with 0 <= start.
pyslice(list, start, stop) ==
    SubSeq(list, Min(start, Len(list)) + 1, Min(stop, Len(list)))

Sequential_getValues(block, address, count) ==
    LET start == address - block.address
    IN  pyslice(block.values, start, start + count)

\* self.values[start:start + len(values)] = values
Sequential_setValues(block, address, list) ==
    LET start == address - block.address
    IN  [block EXCEPT !.values =
            pyslice(block.values, 0, start) \o list
                \o pyslice(block.values, start + Len(list), Len(block.values))]

(***************************************************************************)
(* A40HoldingRegistersDataBlock (a40.py lines 132-210).  A device `self`   *)
(* is a record: pc, its place in create(); di, co, ir, the three           *)
(* sequential blocks; hr, the holding block's values; last_values and      *)
(* start_time, the holding block's _last_values and _start_time; draw, the *)
(* random.randint results of its latest _step, by address; ticks, the      *)
(* calls of _step so far, counted up to MaxTicks; beat, which every _step  *)
(* flips; writes, the client writes since the latest _step; pending, the   *)
(* registers the loop of a running _step has still to update, none when no *)
(* _step is running.                                                       *)
(***************************************************************************)
_expand_register_value_first(addr, value) ==
    LET width == _ALL_REGISTERS[addr]
        words == _pack_value(value, width)
    IN  [a \in {addr} |-> words[1]]

_expand_register_value_reversed(addr, value) ==
    LET width == _ALL_REGISTERS[addr]
        words == _pack_value(value, width)
    IN  [a \in addr..(addr + width - 1) |-> words[width - (a - addr)]]

_expand_register_value(addr, value) ==
    LET width == _ALL_REGISTERS[addr]
        words == _pack_value(value, width)
    IN  [a \in addr..(addr + width - 1) |-> words[a - addr + 1]]

\* __init__ lines 146-150: every register of the catalog, expanded.
RECURSIVE expand_all(_, _, _)
expand_all(addrs, values, expanded_values) ==
    IF addrs = {} THEN expanded_values
    ELSE LET addr == CHOOSE a \in addrs : TRUE
         IN  expand_all(addrs \ {addr}, values,
                 update(expanded_values,
                        _expand_register_value(addr, get(values, addr, 0))))

\* random.randint(a, b): any integer from a to b, both included.
randint(a, b) == a..b

\* The draws the model follows, among those randint(0, 100) can return.
DrawSample == randint(0, 100) \cap {-1, 24, 25, 49, 50, 100, 101}

\* Lines 198-207: the value _last_values[addr] holds after the update; p is
\* the result of random.randint(0, 100), drawn when addr has a last value.
next_value_inclusive(self, addr, p, limits) ==
    IF addr \notin DOMAIN self.last_values
    THEN int_truediv(sum(limits), 2)
    ELSE IF p <= 25 THEN Min(limits[2], self.last_values[addr] + 25)
    ELSE IF p <= 50 THEN Max(limits[1], self.last_values[addr] - 25)
    ELSE self.last_values[addr]

next_value_swapped(self, addr, p, limits) ==
    IF addr \notin DOMAIN self.last_values
    THEN int_truediv(sum(limits), 2)
    ELSE IF p < 25 THEN Max(limits[1], self.last_values[addr] - 25)
    ELSE IF p < 50 THEN Min(limits[2], self.last_values[addr] + 25)
    ELSE self.last_values[addr]

next_value_unclamped(self, addr, p, limits) ==
    IF addr \notin DOMAIN self.last_values
    THEN int_truediv(sum(limits), 2)
    ELSE IF p < 25 THEN self.last_values[addr] + 25
    ELSE IF p < 50 THEN self.last_values[addr] - 25
    ELSE self.last_values[addr]

next_value(self, addr, p, limits) ==
    IF addr \notin DOMAIN self.last_values
    THEN int_truediv(sum(limits), 2)
    ELSE IF p < 25 THEN Min(limits[2], self.last_values[addr] + 25)
    ELSE IF p < 50 THEN Max(limits[1], self.last_values[addr] - 25)
    ELSE self.last_values[addr]

\* self._last_values[addr] = last, and lines 209-210: last is expanded and set.
commit_torn(self, addr, last) ==
    [self EXCEPT
        !.last_values = update(self.last_values, [a \in {addr} |-> last]),
        !.hr = Sparse_setValues_dict(self.hr,
                    [a \in {addr} |-> _expand_register_value(addr, last)[a]])]

commit(self, addr, last) ==
    [self EXCEPT
        !.last_values = update(self.last_values, [a \in {addr} |-> last]),
        !.hr = Sparse_setValues_dict(self.hr,
                    _expand_register_value(addr, last))]

_update_varying_register_lazy(self, addr, p) ==
    LET limits == get(REGISTER_LIMITS, addr, <<0, 1000>>)
        last   == next_value(self, addr, p, limits)
    IN  IF addr \in DOMAIN self.last_values /\ self.last_values[addr] = last
        THEN self
        ELSE commit(self, addr, last)

_update_varying_register_wide(self, addr, p) ==
    LET limits == get(REGISTER_LIMITS, addr, <<0, 2000>>)
    IN  commit(self, addr, next_value(self, addr, p, limits))

_update_varying_register_limited(self, addr, p) ==
    IF addr \in DOMAIN REGISTER_LIMITS
    THEN commit(self, addr,
                next_value(self, addr, p, REGISTER_LIMITS[addr]))
    ELSE self

_update_varying_register(self, addr, p) ==
    LET limits == get(REGISTER_LIMITS, addr, <<0, 1000>>)
    IN  commit(self, addr, next_value(self, addr, p, limits))

\* for k in _INITIAL_REGISTER_VALUES: self._update_varying_register(k)
RECURSIVE update_each(_, _, _)
update_each(self, keys, draws) ==
    IF keys = {} THEN self
    ELSE LET k == CHOOSE a \in keys : TRUE
         IN  update_each(_update_varying_register(self, k, get(draws, k, 0)),
                         keys \ {k}, draws)

\* The hour meter value _step computes: 1/100 hour is 36 seconds.
diris_time(elapsed_time) == int_truediv(elapsed_time, 36)

\* _step at clock reading time; draws[k] is the draw made for register k.
_step(self, time, draws) ==
    LET elapsed_time == time - self.start_time
        metered == [self EXCEPT !.hr =
                        Sparse_setValues_dict(self.hr,
                            _expand_register_value(_HOUR_METER,
                                                   diris_time(elapsed_time)))]
        stepped == update_each(metered, DOMAIN _INITIAL_REGISTER_VALUES, draws)
    IN  [stepped EXCEPT !.draw = draws,
                        !.ticks = Min(self.ticks + 1, MaxTicks),
                        !.beat = ~self.beat,
                        !.writes = 0]

\* create() up to line 152 of __init__: the four blocks exist, with the
\* holding block's values expanded; the looping call is not started yet.
create ==
    [pc          |-> "init",
     di          |-> SequentialDataBlock(0, <<1>>),
     co          |-> SequentialDataBlock(0, <<1>>),
     ir          |-> SequentialDataBlock(0, <<1>>),
     hr          |-> expand_all(DOMAIN _ALL_REGISTERS,
                                _INITIAL_REGISTER_VALUES, <<>>),
     last_values |-> <<>>,
     start_time  |-> 0,
     draw        |-> <<>>,
     ticks       |-> 0,
     beat        |-> FALSE,
     writes      |-> 0,
     pending     |-> {}]

(***************************************************************************)
(* A40SlaveContext (a40.py lines 88-130).                                  *)
(***************************************************************************)
\* The Modbus function codes of the requests the model sends.
ReadFx  == {1, 2, 3, 4}
WriteFx == {5, 6, 16}

\* pymodbus's IModbusSlaveContext.decode: function code -> store.
decode(fx) ==
    CASE fx \in {2}         -> "d"
      [] fx \in {4}         -> "i"
      [] fx \in {3, 6, 16}  -> "h"
      [] fx \in {1, 5, 15}  -> "c"

\* self.store[key]
store(self, key) ==
    CASE key = "d" -> self.di
      [] key = "c" -> self.co
      [] key = "i" -> self.ir
      [] key = "h" -> self.hr

block_validate(self, key, address, count) ==
    IF key = "h" THEN Sparse_validate(store(self, key), address, count)
    ELSE Sequential_validate(store(self, key), address, count)

block_getValues(self, key, address, count) ==
    IF key = "h" THEN Sparse_getValues(store(self, key), address, count)
    ELSE Sequential_getValues(store(self, key), address, count)

block_setValues(self, key, address, values) ==
    CASE key = "h" ->
            [self EXCEPT !.hr = Sparse_setValues_list(self.hr, address, values)]
      [] key = "d" ->
            [self EXCEPT !.di = Sequential_setValues(self.di, address, values)]
      [] key = "c" ->
            [self EXCEPT !.co = Sequential_setValues(self.co, address, values)]
      [] key = "i" ->
            [self EXCEPT !.ir = Sequential_setValues(self.ir, address, values)]

validate_shifted(self, fx, address, count) ==
    block_validate(self, decode(fx), address + 1, count)

validate(self, fx, address, count) ==
    block_validate(self, decode(fx), address, count)

getValues(self, fx, address, count) ==
    block_getValues(self, decode(fx), address, count)

setValues_tracking(self, fx, address, values) ==
    LET written == block_setValues(self, decode(fx), address, values)
    IN  IF decode(fx) = "h" /\ address \in DOMAIN self.last_values
        THEN [written EXCEPT !.last_values =
                    update(self.last_values, [a \in {address} |-> values[1]])]
        ELSE written

setValues_shifted(self, fx, address, values) ==
    block_setValues(self, decode(fx), address + 1, values)

setValues(self, fx, address, values) ==
    block_setValues(self, decode(fx), address, values)

(***************************************************************************)
(* The state machine.  main.py creates the devices, then tcp_gateway.start *)
(* runs the reactor: one thread, which runs the looping calls and the      *)
(* request handlers one at a time, each to its end.                        *)
(***************************************************************************)
\* The unit ids of the devices the model creates.
Units == {1}

\* The clock advances by one of these between two readings by _step.
TickDelays == {35, 36}

\* The requests of the model: addresses around each register and around the
\* sequential blocks' only address, counts and value lists up to MaxCount.
ReqAddrs ==
    {0, 1} \cup UNION {{a - 1, a, a + 1, a + 2} : a \in DOMAIN _ALL_REGISTERS}

ReqCounts == 1..MaxCount

ReqValues == {SubSeq(<<7, 9, 11, 13, 15>>, 1, n) : n \in 1..MaxCount}

NoCall == [value |-> 0, width |-> 1, called |-> FALSE, result |-> <<>>]

Init ==
    /\ slaves = [u \in Units |-> create]
    /\ now = BootTime
    /\ codec = NoCall

\* The reactor runs once main.py has created every device.
Serving == \A u \in DOMAIN slaves : slaves[u].pc = "run"

\* The reactor thread is inside no callback: no _step is running.
Idle_threaded == TRUE

Idle == \A u \in DOMAIN slaves : slaves[u].pending = {}

\* __init__ lines 154-160: LoopingCall.start(1.0) calls _step at once, before
\* it returns; no register has a last value yet, so nothing is drawn.
StartLooping(u) ==
    /\ slaves[u].pc = "init"
    /\ slaves' = [slaves EXCEPT ![u] =
            _step([slaves[u] EXCEPT !.pc = "run",
                                    !.last_values = <<>>,
                                    !.start_time = now],
                  now, <<>>)]
    /\ UNCHANGED <<now, codec>>

\* The draws one _step can make for the registers regs: any combination,
\* or (lockstep) the same number for every register.
AnyDraws(regs) == [regs -> DrawSample]

SameDraws(regs) == {[k \in regs |-> p] : p \in DrawSample}

draws_for(regs, lockstep) == IF lockstep THEN SameDraws(regs) ELSE AnyDraws(regs)

\* The looping call fires: one _step of device u, after the clock advanced.
Tick(u, delays, lockstep) ==
    /\ Serving
    /\ Idle
    /\ \E delay \in delays,
          draws \in draws_for(DOMAIN slaves[u].last_values, lockstep) :
            /\ now + delay - slaves[u].start_time <= MaxElapsed
            /\ now' = now + delay
            /\ slaves' = [slaves EXCEPT ![u] = _step(slaves[u], now', draws)]
    /\ UNCHANGED codec

\* A request's validation: the verdict is validate(...), the state is as it was.
ValidateRequest(u, fx, address, count) ==
    /\ Serving
    /\ Idle
    /\ validate(slaves[u], fx, address, count) \in BOOLEAN
    /\ UNCHANGED vars

\* A read request: the protocol layer validates, then calls getValues.
ReadRequest(u, fx, address, count) ==
    /\ Serving
    /\ Idle
    /\ validate(slaves[u], fx, address, count)
    /\ Len(getValues(slaves[u], fx, address, count)) >= 0
    /\ UNCHANGED vars

\* A write request: the protocol layer validates, then calls setValues.
WriteRequest_shared(u, fx, address, values) ==
    /\ Serving
    /\ Idle
    /\ slaves[u].writes < MaxWrites
    /\ validate(slaves[u], fx, address, Len(values))
    /\ slaves' = [v \in DOMAIN slaves |->
            [setValues(slaves[v], fx, address, values)
                EXCEPT !.writes = slaves[v].writes + 1]]
    /\ UNCHANGED <<now, codec>>

WriteRequest(u, fx, address, values) ==
    /\ Serving
    /\ Idle
    /\ slaves[u].writes < MaxWrites
    /\ validate(slaves[u], fx, address, Len(values))
    /\ slaves' = [slaves EXCEPT ![u] =
            [setValues(slaves[u], fx, address, values)
                EXCEPT !.writes = slaves[u].writes + 1]]
    /\ UNCHANGED <<now, codec>>

Next ==
    \E u \in Units :
        \/ StartLooping(u)
        \/ Tick(u, TickDelays, FALSE)
        \/ \E fx \in ReadFx, address \in ReqAddrs, count \in ReqCounts :
                ValidateRequest(u, fx, address, count)
        \/ \E fx \in ReadFx, address \in ReqAddrs, count \in ReqCounts :
                ReadRequest(u, fx, address, count)
        \/ \E fx \in WriteFx, address \in ReqAddrs, values \in ReqValues :
                WriteRequest(u, fx, address, values)

Spec == Init /\ [][Next]_vars

(***************************************************************************)
(* SpecWalk: the simulation engine alone, for any number of ticks: the     *)
(* clock may also stand still between two ticks, and every register of a   *)
(* device draws the same number in one tick, so that a register can be     *)
(* followed from its midpoint to both of its limits.                       *)
(***************************************************************************)
NextWalk ==
    \E u \in Units :
        \/ StartLooping(u)
        \/ Tick(u, TickDelays \cup {0}, TRUE)

SpecWalk == Init /\ [][NextWalk]_vars

(***************************************************************************)
(* SpecSteps: _step followed statement by statement.  The looping call     *)
(* enters _step, which reads the clock and writes the hour meter; then     *)
(* each pass of its loop updates one register.  The reactor thread takes   *)
(* up the next callback, a request or a tick, when _step has returned.     *)
(***************************************************************************)
\* Lines 182-187, and the draws the loop is going to make.
BeginStep(u, delays) ==
    /\ Serving
    /\ Idle
    /\ \E delay \in delays,
          draws \in draws_for(DOMAIN slaves[u].last_values, TRUE) :
            /\ now + delay - slaves[u].start_time <= MaxElapsed
            /\ now' = now + delay
            /\ slaves' = [slaves EXCEPT ![u] =
                    [slaves[u] EXCEPT
                        !.hr = Sparse_setValues_dict(slaves[u].hr,
                                  _expand_register_value(_HOUR_METER,
                                      diris_time(now' - slaves[u].start_time))),
                        !.draw = draws,
                        !.beat = ~slaves[u].beat,
                        !.pending = DOMAIN _INITIAL_REGISTER_VALUES]]
    /\ UNCHANGED codec

\* Lines 189-190: one pass of the loop; _step returns after the last one.
UpdateNext(u) ==
    /\ slaves[u].pending # {}
    /\ \E k \in slaves[u].pending :
          LET self    == slaves[u]
              updated == _update_varying_register(self, k, get(self.draw, k, 0))
              last    == self.pending = {k}
          IN  slaves' = [slaves EXCEPT ![u] =
                  [updated EXCEPT
                      !.pending = self.pending \ {k},
                      !.ticks = IF last THEN Min(self.ticks + 1, MaxTicks)
                                ELSE self.ticks,
                      !.writes = IF last THEN 0 ELSE self.writes]]
    /\ UNCHANGED <<now, codec>>

NextSteps ==
    \E u \in Units :
        \/ StartLooping(u)
        \/ BeginStep(u, TickDelays)
        \/ UpdateNext(u)
        \/ \E fx \in ReadFx, address \in ReqAddrs, count \in ReqCounts :
                ValidateRequest(u, fx, address, count)
        \/ \E fx \in ReadFx, address \in ReqAddrs, count \in ReqCounts :
                ReadRequest(u, fx, address, count)
        \/ \E fx \in WriteFx, address \in ReqAddrs, values \in ReqValues :
                WriteRequest(u, fx, address, values)

SpecSteps == Init /\ [][NextSteps]_vars

(***************************************************************************)
(* SpecPair: two of the devices main.py creates, each with its looping     *)
(* call, drawing in lockstep, and with clients writing holding registers   *)
(* of either.                                                              *)
(***************************************************************************)
Pair == {1, 2}

InitPair ==
    /\ slaves = [u \in Pair |-> create]
    /\ now = BootTime
    /\ codec = NoCall

NextPair ==
    \E u \in Pair :
        \/ StartLooping(u)
        \/ Tick(u, TickDelays, TRUE)
        \/ \E address \in ReqAddrs, values \in ReqValues :
                WriteRequest(u, 16, address, values)

SpecPair == InitPair /\ [][NextPair]_vars

(***************************************************************************)
(* SpecCodec: _pack_value, called once on a value and a width.             *)
(***************************************************************************)
\* The least integer of the model, -2^31.
INT_MIN == -2147483647 - 1

CodecValues ==
    {INT_MIN, -2147483647, -65537, -65536, -32769, -32768, -257, -256, -255,
     -1, 0, 1, 255, 256, 500, 1000, 25000, 32767, 32768, 50000, 65535, 65536,
     2147483646, 2147483647}

InitCodec ==
    /\ slaves = <<>>
    /\ now = BootTime
    /\ codec \in [value : CodecValues, width : DOMAIN _REGISTER_TYPES,
                  called : {FALSE}, result : {<<>>}]

PackCall ==
    /\ ~codec.called
    /\ codec' = [codec EXCEPT !.called = TRUE,
                              !.result = _pack_value(codec.value, codec.width)]
    /\ UNCHANGED <<slaves, now>>

SpecCodec == InitCodec /\ [][PackCall]_vars

(***************************************************************************)
(* What the properties below speak of.                                     *)
(***************************************************************************)
\* The catalog registers of the model with and without configured limits.
Bounded   == (DOMAIN _ALL_REGISTERS) \cap (DOMAIN REGISTER_LIMITS)
Unbounded == (DOMAIN _ALL_REGISTERS) \ (DOMAIN REGISTER_LIMITS)

\* The words a store holds at the slots of register addr, in address order.
words_at(values, addr) ==
    [i \in 1.._ALL_REGISTERS[addr] |-> values[addr + i - 1]]

\* The signed integer whose big-endian two's-complement encoding is words.
RECURSIVE unpack(_)
unpack(words) ==
    IF Len(words) = 1
    THEN IF words[1] >= 32768 THEN words[1] - 65536 ELSE words[1]
    ELSE unpack(SubSeq(words, 1, Len(words) - 1)) * 65536 + words[Len(words)]

\* The logical value device self holds at register addr.
logical(self, addr) == unpack(words_at(self.hr, addr))

\* The step is a call of _step by device u.
IsStep(u) == slaves'[u].beat # slaves[u].beat

\* The step is a client write to device u.
IsWrite(u) == slaves'[u].writes = slaves[u].writes + 1

\* Device self as a client first sees it: created, not written to, and with
\* no tick of the looping call since.
FirstObservable(self) ==
    self.pc = "run" /\ self.ticks = 1 /\ self.writes = 0

(***************************************************************************)
(* C1  Bounds containment (SpecWalk): whatever the ticks and the draws,    *)
(* the value the engine holds for a register with limits [min, max], which *)
(* is the value its slots hold, satisfies min <= value <= max.             *)
(***************************************************************************)
C1_BoundsContainment ==
    \A u \in DOMAIN slaves : \A a \in Bounded :
        LET self   == slaves[u]
            limits == REGISTER_LIMITS[a]
        IN  a \in DOMAIN self.last_values =>
                /\ limits[1] <= self.last_values[a]
                /\ self.last_values[a] <= limits[2]
                /\ logical(self, a) = self.last_values[a]

\* A draw below 25 at the upper limit: the value stays at the limit.
C1_Witness ==
    \E u \in DOMAIN slaves :
        /\ 50544 \in DOMAIN slaves[u].draw
        /\ slaves[u].draw[50544] < 25
        /\ slaves[u].last_values[50544] = REGISTER_LIMITS[50544][2]
        /\ slaves[u].ticks = MaxTicks

(***************************************************************************)
(* C2  Monotonic hour meter (Spec): after every completed tick the two     *)
(* words at 0xC550 hold floor(elapsed seconds / 36) for that tick.  The    *)
(* code falsifies it: _step writes the hour meter and then, in its loop    *)
(* over every register of the catalog, overwrites it with the random walk. *)
(***************************************************************************)
C2_HourMeter ==
    \A u \in DOMAIN slaves :
        (slaves[u].pc = "run" /\ slaves[u].writes = 0) =>
            logical(slaves[u], _HOUR_METER)
                = diris_time(now - slaves[u].start_time)

(***************************************************************************)
(* C3  Registers without limits (Spec).  As claimed: no call of _step      *)
(* changes the word slots of a catalog register that has no entry in       *)
(* REGISTER_LIMITS.                                                        *)
(***************************************************************************)
C3_Original ==
    [][\A u \in DOMAIN slaves :
          IsStep(u) =>
              \A a \in Unbounded :
                  words_at(slaves'[u].hr, a) = words_at(slaves[u].hr, a)]_vars

(***************************************************************************)
(* C3 as amended: such a register holds 0 until the first _step; every     *)
(* _step sets its slots to the packed value the engine holds for it, which *)
(* is 500 at the first _step and then moves by 25, -25 or 0 within the     *)
(* default range [0, 1000].                                                *)
(***************************************************************************)
C3_Amended ==
    [][\A u \in DOMAIN slaves : \A a \in Unbounded :
          /\ slaves[u].pc = "init" => logical(slaves[u], a) = 0
          /\ IsStep(u) =>
                /\ a \in DOMAIN slaves'[u].last_values
                /\ slaves'[u].last_values[a] \in 0..1000
                /\ IF a \in DOMAIN slaves[u].last_values
                   THEN slaves'[u].last_values[a] - slaves[u].last_values[a]
                            \in {-25, 0, 25}
                   ELSE slaves'[u].last_values[a] = 500
                /\ words_at(slaves'[u].hr, a)
                      = _pack_value(slaves'[u].last_values[a],
                                    _ALL_REGISTERS[a])]_vars

\* A tick has moved the one-word register 51280, which has no limits, to 525.
C3_Witness ==
    \E u \in DOMAIN slaves :
        /\ slaves[u].ticks = 2
        /\ slaves[u].writes = 0
        /\ slaves[u].last_values[51280] = 525
        /\ logical(slaves[u], 51280) = 525

(***************************************************************************)
(* C4  Initialization (Spec).  As claimed: in the state a client first     *)
(* sees, every register with limits holds floor((min + max) / 2) and every *)
(* other register of the catalog holds 0.                                  *)
(***************************************************************************)
C4_Original ==
    \A u \in DOMAIN slaves :
        FirstObservable(slaves[u]) =>
            /\ \A a \in Bounded :
                    logical(slaves[u], a)
                        = (REGISTER_LIMITS[a][1] + REGISTER_LIMITS[a][2]) \div 2
            /\ \A a \in Unbounded : logical(slaves[u], a) = 0

(***************************************************************************)
(* C4 as amended: the holding block is built with every register with      *)
(* limits at floor((min + max) / 2) and every other register at 0; the     *)
(* looping call runs _step once before create() returns, so in the state a *)
(* client first sees the registers with limits are at that midpoint and    *)
(* the others at 500.                                                      *)
(***************************************************************************)
C4_Amended ==
    \A u \in DOMAIN slaves :
        LET self == slaves[u]
            mid(a) == (REGISTER_LIMITS[a][1] + REGISTER_LIMITS[a][2]) \div 2
        IN  /\ self.pc = "init" =>
                /\ \A a \in Bounded : logical(self, a) = mid(a)
                /\ \A a \in Unbounded : logical(self, a) = 0
            /\ FirstObservable(self) =>
                /\ \A a \in Bounded : logical(self, a) = mid(a)
                /\ \A a \in Unbounded : logical(self, a) = 500

\* The device as a client first sees it.
C4_Witness ==
    \E u \in DOMAIN slaves :
        /\ FirstObservable(slaves[u])
        /\ logical(slaves[u], 50544) = 500
        /\ logical(slaves[u], 51280) = 500

(***************************************************************************)
(* C5  Validation exactness (Spec): in every state, after any ticks, a     *)
(* holding-register request for count >= 1 words from address is valid     *)
(* exactly when every word address of [address, address + count) is a slot *)
(* of a catalog register, a register at A of width w having the slots      *)
(* A .. A + w - 1.                                                         *)
(***************************************************************************)
CatalogSlots ==
    UNION {a..(a + _ALL_REGISTERS[a] - 1) : a \in DOMAIN _ALL_REGISTERS}

ProbeAddrs == UNION {(a - 2)..(a + 3) : a \in DOMAIN _ALL_REGISTERS}

ProbeCounts == 1..(MaxCount + 1)

C6_SecondWord ==
    \A u \in DOMAIN slaves :
        \A A \in {a \in DOMAIN _ALL_REGISTERS : _ALL_REGISTERS[a] = 2} :
            LET self == slaves[u]
            IN  /\ validate(self, 3, A + 1, 1)
                /\ getValues(self, 3, A + 1, 1) = <<logical(self, A) % 65536>>
                /\ (self.pc = "run" /\ self.writes = 0) =>
                        getValues(self, 3, A + 1, 1)
                            = <<self.last_values[A] % 65536>>

\* After a tick moved 50544 to 525, its second word reads 525.
C6_Witness ==
    \E u \in DOMAIN slaves :
        /\ slaves[u].ticks = 2
        /\ slaves[u].writes = 0
        /\ slaves[u].last_values[50544] = 525
        /\ getValues(slaves[u], 3, 50544 + 1, 1) = <<525>>

(***************************************************************************)
(* C7  Address pass-through (Spec): for every function code, address and   *)
(* count, the context's validate, getValues and setValues act on the store *)
(* the function code selects at the very address given: a holding-register *)
(* request is valid when its words are keys of the holding block, reads    *)
(* the words at those keys and writes them; a request to one of the other  *)
(* blocks, which hold one value at address 0, is judged, read and written  *)
(* at its address from 0.                                                  *)
(***************************************************************************)
AllFx == ReadFx \cup WriteFx \cup {15}

C7_PassThrough ==
    \A u \in DOMAIN slaves :
        \A fx \in AllFx, address \in ReqAddrs, count \in ReqCounts :
            LET self == slaves[u]
                key  == decode(fx)
                list == IF key = "h" THEN <<>> ELSE store(self, key).values
                span == address..(address + count - 1)
                data == SubSeq(<<7, 9, 11, 13, 15>>, 1, count)
            IN  IF key = "h"
                THEN /\ validate(self, fx, address, count)
                            <=> span \subseteq DOMAIN self.hr
                     /\ validate(self, fx, address, count) =>
                            getValues(self, fx, address, count)
                                = [i \in 1..count |-> self.hr[address + i - 1]]
                     /\ setValues(self, fx, address, data).hr
                            = [a \in (DOMAIN self.hr) \cup span |->
                                   IF a \in span THEN data[a - address + 1]
                                   ELSE self.hr[a]]
                ELSE /\ validate(self, fx, address, count)
                            <=> address + count <= Len(list)
                     /\ validate(self, fx, address, count) =>
                            /\ getValues(self, fx, address, count)
                                   = [i \in 1..count |-> list[address + i]]
                            /\ store(setValues(self, fx, address, data),
                                     key).values
                                   = [i \in 1..Len(list) |->
                                          IF i - 1 \in span
                                          THEN data[i - address] ELSE list[i]]

\* A client wrote 7 at the hour meter's address, the lowest of the catalog:
\* a read there returns it, and the address below is not valid.
C7_Witness ==
    \E u \in DOMAIN slaves :
        /\ slaves[u].writes = 1
        /\ slaves[u].hr[_HOUR_METER] = 7
        /\ getValues(slaves[u], 3, _HOUR_METER, 1) = <<7>>
        /\ ~validate(slaves[u], 3, _HOUR_METER - 1, 1)

(***************************************************************************)
(* C8  Malformed write length (Spec).  As claimed: a write whose number of *)
(* values does not match the width of the register it addresses changes no *)
(* slot: a client write changes every slot of a register or none.          *)
(***************************************************************************)
C8_Original ==
    [][\A u \in DOMAIN slaves :
          IsWrite(u) =>
              \A A \in DOMAIN _ALL_REGISTERS :
                  LET slots   == A..(A + _ALL_REGISTERS[A] - 1)
                      changed == {a \in slots :
                                     slaves'[u].hr[a] # slaves[u].hr[a]}
                  IN  changed = {} \/ changed = slots]_vars

(***************************************************************************)
(* C8 as amended: a write is refused only when its range [address,         *)
(* address + n) is not valid; a valid write of n values is applied         *)
(* whatever the width of the register addressed: it overwrites exactly the *)
(* n slots from address of the store its function code selects, so that a  *)
(* part of a multi-word register can be written, and adds no slot.         *)
(***************************************************************************)
C8_Amended ==
    [][\A u \in DOMAIN slaves :
          IsWrite(u) =>
              /\ DOMAIN slaves'[u].hr = DOMAIN slaves[u].hr
              /\ \E fx \in WriteFx, address \in ReqAddrs, values \in ReqValues :
                    LET span == address..(address + Len(values) - 1)
                    IN  /\ validate(slaves[u], fx, address, Len(values))
                        /\ IF decode(fx) = "h"
                           THEN /\ \A a \in span :
                                      slaves'[u].hr[a] = values[a - address + 1]
                                /\ \A a \in (DOMAIN slaves[u].hr) \ span :
                                      slaves'[u].hr[a] = slaves[u].hr[a]
                           ELSE slaves'[u].hr = slaves[u].hr]_vars

\* One value was written to the two-word register 50544: its first word is
\* the client's, its second word still the engine's.
C8_Witness ==
    \E u \in DOMAIN slaves :
        /\ slaves[u].writes = 1
        /\ slaves[u].hr[50544] = 7
        /\ slaves[u].hr[50544 + 1] = slaves[u].last_values[50544] % 65536
        /\ slaves[u].last_values[50544] = 525

(***************************************************************************)
(* C9  Sole writer (Spec).  As claimed: no client write changes the word   *)
(* slots of a register that has limits.                                    *)
(***************************************************************************)
C9_Original ==
    [][\A u \in DOMAIN slaves :
          IsWrite(u) =>
              \A a \in Bounded :
                  words_at(slaves'[u].hr, a) = words_at(slaves[u].hr, a)]_vars

(***************************************************************************)
(* C9 as amended: the engine is the sole writer of the values it holds:    *)
(* no client write changes _last_values, and the last value of a register  *)
(* with limits changes only in a call of _step.  The word slots of such a  *)
(* register are not protected: a client write overwrites them.             *)
(***************************************************************************)
C9_Amended ==
    [][\A u \in DOMAIN slaves :
          /\ IsWrite(u) =>
                slaves'[u].last_values = slaves[u].last_values
          /\ \A a \in Bounded :
                (/\ a \in DOMAIN slaves[u].last_values
                 /\ slaves'[u].last_values[a] # slaves[u].last_values[a])
                    => IsStep(u)]_vars

\* A client has overwritten the first word of 50544, which has limits; the
\* engine still holds 500 for it.
C9_Witness ==
    \E u \in DOMAIN slaves :
        /\ slaves[u].writes = 1
        /\ slaves[u].hr[50544] = 7
        /\ slaves[u].last_values[50544] = 500

(***************************************************************************)
(* C10  Codec round trip (SpecCodec): for a width w of 1, 2 or 4 and a     *)
(* value v that w * 16 bits can hold, _pack_value(v, w) is w words, each   *)
(* in 0 .. 65535, the most significant first, and unpacking them as a      *)
(* big-endian two's-complement integer gives v; a value one word cannot    *)
(* hold is refused by struct.pack.  The model's values are those of 32     *)
(* bits.                                                                   *)
(***************************************************************************)
Representable(value, width) ==
    width = 1 => (-32768 <= value /\ value <= 32767)

C10_RoundTrip ==
    codec.called =>
        IF Representable(codec.value, codec.width)
        THEN /\ Len(codec.result) = codec.width
             /\ \A i \in 1..codec.width : codec.result[i] \in 0..65535
             /\ codec.result[codec.width] = codec.value % 65536
             /\ unpack(codec.result) = codec.value
        ELSE codec.result = StructError

\* -2 ^ 31 packed in four words: the sign fills the two high words.
C10_Witness ==
    /\ codec.called
    /\ codec.value = INT_MIN
    /\ codec.width = 4
    /\ codec.result = <<65535, 65535, 32768, 0>>

(***************************************************************************)
(* C11  First tick after initialization (Spec): create() leaves a register *)
(* with limits at its midpoint m, the _step that the constructor runs      *)
(* making no draw; the first tick of the looping call after that sets it   *)
(* to m + 25 when the draw for it is below 25, to m - 25 when the draw is  *)
(* in [25, 50) and leaves it at m otherwise.  For 50520, with limits       *)
(* [0, 50000], the draws 10, 40 and 80 give 25025, 24975 and 25000.        *)
(***************************************************************************)
C11_FirstTick ==
    [][\A u \in DOMAIN slaves :
          (slaves[u].pc = "run" /\ slaves[u].ticks = 1 /\ IsStep(u)) =>
              /\ \A a \in Bounded :
                    LET m == _INITIAL_REGISTER_VALUES[a]
                        d == slaves'[u].draw[a]
                    IN  /\ slaves[u].last_values[a] = m
                        /\ logical(slaves'[u], a)
                              = IF d < 25 THEN m + 25
                                ELSE IF d < 50 THEN m - 25 ELSE m
              /\ LET limits == REGISTER_LIMITS[50520]
                     m      == floordiv(sum(limits), 2)
                     held   == [last_values |-> [a \in {50520} |-> m]]
                 IN  /\ m = 25000
                     /\ next_value(held, 50520, 10, limits) = 25025
                     /\ next_value(held, 50520, 40, limits) = 24975
                     /\ next_value(held, 50520, 80, limits) = 25000]_vars

\* The first tick after create() drew 49 for 50544: it went from 500 to 475.
C11_Witness ==
    \E u \in DOMAIN slaves :
        /\ slaves[u].ticks = 2
        /\ slaves[u].draw[50544] = 49
        /\ slaves[u].last_values[50544] = 475
        /\ logical(slaves[u], 50544) = 475

(***************************************************************************)
(* C12  No torn reads (Spec): ticks and requests are callbacks of the one  *)
(* reactor thread, each run to its end, so a read finds the store as the   *)
(* latest _step left it.  With no client write since that _step, every     *)
(* valid read of count holding registers from address returns, for each    *)
(* slot it covers, the word of that slot in the packed value the engine    *)
(* holds for the slot's register: never words of two values of the engine. *)
(***************************************************************************)
owner(slot) ==
    CHOOSE A \in DOMAIN _ALL_REGISTERS :
        A <= slot /\ slot < A + _ALL_REGISTERS[A]

C12_NoTornReads ==
    \A u \in DOMAIN slaves :
        LET self == slaves[u]
        IN  (self.pc = "run" /\ self.writes = 0) =>
                \A address \in ReqAddrs, count \in ReqCounts :
                    validate(self, 3, address, count) =>
                        LET read == getValues(self, 3, address, count)
                        IN  /\ Len(read) = count
                            /\ \A i \in 1..count :
                                  LET slot == address + i - 1
                                      A    == owner(slot)
                                  IN  read[i] =
                                        _pack_value(self.last_values[A],
                                            _ALL_REGISTERS[A])[slot - A + 1]

\* After a tick moved 50544 from 500 to 525 and the hour meter's register
\* from 500 to 475, reads of both words of each return the new values whole.
C12_Witness ==
    \E u \in DOMAIN slaves :
        /\ slaves[u].ticks = 2
        /\ slaves[u].writes = 0
        /\ getValues(slaves[u], 3, 50544, 2) = <<0, 525>>
        /\ getValues(slaves[u], 3, _HOUR_METER, 2) = <<0, 475>>

(***************************************************************************)
(* C13  Random-walk step rule (SpecWalk): in every tick, for every         *)
(* register with limits [min, max] for which the engine holds a value v,   *)
(* a draw d < 25 makes the value min(max, v + 25), a draw 25 <= d < 50     *)
(* makes it max(min, v - 25) and any other draw leaves v; the tick writes  *)
(* that value, packed, to the register's slots.                            *)
(***************************************************************************)
C13_StepRule ==
    [][\A u \in DOMAIN slaves :
          IsStep(u) =>
              \A a \in Bounded :
                  a \in DOMAIN slaves[u].last_values =>
                      LET v    == slaves[u].last_values[a]
                          d    == slaves'[u].draw[a]
                          min  == REGISTER_LIMITS[a][1]
                          max  == REGISTER_LIMITS[a][2]
                          next == IF d < 25
                                  THEN (IF v + 25 > max THEN max ELSE v + 25)
                                  ELSE IF d < 50
                                  THEN (IF v - 25 < min THEN min ELSE v - 25)
                                  ELSE v
                      IN  /\ slaves'[u].last_values[a] = next
                          /\ words_at(slaves'[u].hr, a)
                                = _pack_value(next, _ALL_REGISTERS[a])
                          /\ logical(slaves'[u], a) = next]_vars

\* A draw in [25, 50) with 50544 at its lower limit 0: it stays at 0.
C13_Witness ==
    \E u \in DOMAIN slaves :
        /\ 50544 \in DOMAIN slaves[u].draw
        /\ slaves[u].draw[50544] \in 25..49
        /\ slaves[u].last_values[50544] = REGISTER_LIMITS[50544][1]
        /\ logical(slaves[u], 50544) = 0

(***************************************************************************)
(* C14  Write effect and frame (Spec): in every state, a write of n words  *)
(* to the holding registers at address, validated or not, leaves exactly   *)
(* those words in the slots [address, address + n), so that a read of n    *)
(* words from address returns them, and leaves every other word slot, the  *)
(* engine's values and the three other stores as they were; a validated    *)
(* write to any store is read back as written and adds no slot.            *)
(***************************************************************************)
C14_WriteFrame ==
    \A u \in DOMAIN slaves :
        \A fx \in WriteFx, address \in ReqAddrs, values \in ReqValues :
            LET self  == slaves[u]
                n     == Len(values)
                span  == address..(address + n - 1)
                after == setValues(self, fx, address, values)
            IN  /\ decode(fx) = "h" =>
                    /\ DOMAIN after.hr = (DOMAIN self.hr) \cup span
                    /\ \A a \in span : after.hr[a] = values[a - address + 1]
                    /\ \A a \in (DOMAIN self.hr) \ span :
                            after.hr[a] = self.hr[a]
                    /\ getValues(after, fx, address, n) = values
                    /\ after = [self EXCEPT !.hr = after.hr]
                /\ validate(self, fx, address, n) =>
                    /\ getValues(after, fx, address, n) = values
                    /\ DOMAIN after.hr = DOMAIN self.hr
                    /\ decode(fx) # "h" => after.hr = self.hr

\* A client wrote 7, 9 to the two slots of 50544; the engine's value of it
\* is still 500 and the slots of the other two registers hold the engine's.
C14_Witness ==
    \E u \in DOMAIN slaves :
        /\ slaves[u].writes = 1
        /\ getValues(slaves[u], 3, 50544, 2) = <<7, 9>>
        /\ slaves[u].last_values[50544] = 500
        /\ \A a \in {_HOUR_METER, 51280} :
              logical(slaves[u], a) = slaves[u].last_values[a]

(***************************************************************************)
(* C15  Ticks do not overlap (SpecSteps): a call of _step begins only when *)
(* no _step of any device is running; while one is running, between two of *)
(* its register updates, no validate, read or write request can execute    *)
(* and no other tick can begin; and when it returns, it has updated every  *)
(* register of the catalog: each holds, packed, the value the engine holds *)
(* for it.                                                                 *)
(***************************************************************************)
Running(self) == self.pending # {}

C15_NoOverlap ==
    [][\A u \in DOMAIN slaves :
          /\ IsStep(u) => \A v \in DOMAIN slaves : ~Running(slaves[v])
          /\ IsWrite(u) => \A v \in DOMAIN slaves : ~Running(slaves[v])
          /\ Running(slaves[u]) =>
                /\ \A fx \in ReadFx, address \in ReqAddrs, count \in ReqCounts :
                      /\ ~ENABLED ValidateRequest(u, fx, address, count)
                      /\ ~ENABLED ReadRequest(u, fx, address, count)
                /\ slaves'[u].pending \subseteq slaves[u].pending
                /\ slaves'[u].draw = slaves[u].draw
          /\ (Running(slaves[u]) /\ ~Running(slaves'[u])) =>
                \A a \in DOMAIN _INITIAL_REGISTER_VALUES :
                    /\ a \in DOMAIN slaves'[u].last_values
                    /\ words_at(slaves'[u].hr, a)
                          = _pack_value(slaves'[u].last_values[a],
                                        _ALL_REGISTERS[a])]_vars

\* A _step is running: it has updated 50544, to 525, and not yet 51280.
C15_Witness ==
    \E u \in DOMAIN slaves :
        /\ slaves[u].pending = {51280}
        /\ slaves[u].last_values[50544] = 525
        /\ slaves[u].last_values[51280] = 500
        /\ slaves[u].draw[51280] = 24

(***************************************************************************)
(* C16  Catalog slot disjointness (Spec): over the whole catalog ALL, the  *)
(* union of the six tables, the slot ranges A .. A + width(A) - 1 of two   *)
(* different addresses never meet, every width is 1, 2 or 4, every address *)
(* of REGISTER_LIMITS is an address of the catalog, and the catalog's      *)
(* slots number the sum of its widths; in every state the holding block    *)
(* of a device has exactly the slots of its registers, as many as the sum  *)
(* of their widths.                                                        *)
(***************************************************************************)
slots_of(catalog, A) == A..(A + catalog[A] - 1)

\* The sum of the widths of a catalog whose widths are 1, 2 or 4.
sum_of_widths(catalog) ==
    LET wide(w) == Cardinality({A \in DOMAIN catalog : catalog[A] = w})
    IN  1 * wide(1) + 2 * wide(2) + 4 * wide(4)

CatalogDisjoint ==
    \A A \in DOMAIN ALL, B \in DOMAIN ALL :
        A # B => slots_of(ALL, A) \cap slots_of(ALL, B) = {}

CatalogWellFormed ==
    /\ DOMAIN ALL = UNION {DOMAIN TABLES[i] : i \in DOMAIN TABLES}
    /\ \A A \in DOMAIN ALL : ALL[A] \in {1, 2, 4}
    /\ DOMAIN REGISTER_LIMITS \subseteq DOMAIN ALL
    /\ Cardinality(UNION {slots_of(ALL, A) : A \in DOMAIN ALL})
          = sum_of_widths(ALL)

C16_SlotDisjointness ==
    /\ CatalogDisjoint
    /\ CatalogWellFormed
    /\ \A u \in DOMAIN slaves :
          /\ DOMAIN slaves[u].hr
                = UNION {slots_of(_ALL_REGISTERS, A) : A \in DOMAIN _ALL_REGISTERS}
          /\ Cardinality(DOMAIN slaves[u].hr)
                = sum_of_widths(_ALL_REGISTERS)

\* After a tick and a client write of two words, the holding block still
\* has its five slots: two, two and one.
C16_Witness ==
    \E u \in DOMAIN slaves :
        /\ slaves[u].ticks = 2
        /\ slaves[u].writes = 1
        /\ slaves[u].hr[50544 + 1] = 9
        /\ Cardinality(DOMAIN slaves[u].hr) = 5

(***************************************************************************)
(* C17  Draw domain (Spec): every draw a tick makes for a register is an   *)
(* integer d with 0 <= d < 100.  The code falsifies it: it draws with      *)
(* random.randint(0, 100), which returns 100 as well.                      *)
(***************************************************************************)
C17_DrawDomain ==
    \A u \in DOMAIN slaves : \A a \in DOMAIN slaves[u].draw :
        0 <= slaves[u].draw[a] /\ slaves[u].draw[a] < 100

(***************************************************************************)
(* C18  Tick commit (SpecSteps): when a call of _step returns, the slots   *)
(* of every register the engine holds a value for hold that value packed,  *)
(* whatever a client wrote there before; a read of the register from then  *)
(* on, until a client writes or the next tick begins, returns the packed   *)
(* value of that tick.                                                     *)
(***************************************************************************)
C18_TickCommit ==
    [][\A u \in DOMAIN slaves :
          LET self     == slaves'[u]
              packed(a) == _pack_value(self.last_values[a], _ALL_REGISTERS[a])
          IN  /\ (Running(slaves[u]) /\ ~Running(self)) =>
                    /\ self.writes = 0
                    /\ DOMAIN self.last_values = DOMAIN _INITIAL_REGISTER_VALUES
                    /\ \A a \in DOMAIN self.last_values :
                          words_at(self.hr, a) = packed(a)
              /\ (self.pc = "run" /\ ~Running(self) /\ self.writes = 0) =>
                    \A a \in DOMAIN self.last_values :
                        /\ validate(self, 3, a, _ALL_REGISTERS[a])
                        /\ getValues(self, 3, a, _ALL_REGISTERS[a]) = packed(a)]_vars

\* A client wrote 7 at 50544 and a tick is under way: it has updated the
\* two other registers and is about to overwrite the client's word.
C18_Witness ==
    \E u \in DOMAIN slaves :
        /\ slaves[u].pending = {50544}
        /\ slaves[u].writes = 1
        /\ slaves[u].hr[50544] = 7
        /\ slaves[u].draw[50544] = 50

C20_Isolation ==
    [][\A u \in DOMAIN slaves :
          (IsStep(u) \/ IsWrite(u)) =>
              \A v \in (DOMAIN slaves) \ {u} :
                  /\ slaves'[v].hr = slaves[v].hr
                  /\ slaves'[v].last_values = slaves[v].last_values
                  /\ slaves'[v].di = slaves[v].di
                  /\ slaves'[v].co = slaves[v].co
                  /\ slaves'[v].ir = slaves[v].ir
                  /\ slaves'[v].start_time = slaves[v].start_time]_vars

\* Device 1 has ticked, to 525 at 50544, and device 2 has not; a client
\* wrote 7, 9 at 50544 of device 2, and device 1 still reads its own value.
C20_Witness ==
    /\ DOMAIN slaves = Pair
    /\ slaves[1].ticks = 2
    /\ slaves[2].ticks = 1
    /\ getValues(slaves[1], 3, 50544, 2) = <<0, 525>>
    /\ getValues(slaves[2], 3, 50544, 2) = <<7, 9>>
    /\ slaves[2].last_values[50544] = 500

====
